---- MODULE Spec2Model ----
(***************************************************************************)
(* Model of the table extraction and normalization pipeline:               *)
(*   src/src/extract_pdf_data.py  (extract_pdf_data, process_table_panels, *)
(*                                 clean_sheet_name, write_to_excel)        *)
(*   src/src/consolidate_data.py  (parse_survey_round, process_sheet,      *)
(*                                 extract_perception_category, main)       *)
(*                                                                         *)
(* A Python str is a sequence of one-character strings.  A cell that is    *)
(* None is the one-element tuple NoneCell; a missing row or panel is the   *)
(* tuple NoneRow or NonePanel.  These tuples hold a multi-character        *)
(* element, so they equal no real string, row or panel.                    *)
(***************************************************************************)
EXTENDS Integers, Sequences, FiniteSets, TLC

VARIABLES
    \* process_table_panels, one call
    panels, string_rows, header_rows, body_rows, header_ended, row_i,
    ptp_pc, ptp_result,
    \* process_sheet, one call
    df, sheet_title, long_df, ps_pc, ps_result,
    \* extract_pdf_data on one document
    doc, page_i, items, item_i, all_tables, current_title, current_panels,
    \* write_to_excel on the document's tables, consolidate_data.main on the
    \* workbook written
    sheet_names, workbook, table_i, sheet_i, all_processed_sheets, consolidated_df,
    \* the two driver loops over a batch of documents
    pdf_files, pdf_i, excel_files, file_i,
    \* the document's way through the two scripts
    pc

ptpVars == <<panels, string_rows, header_rows, body_rows, header_ended, row_i,
             ptp_pc, ptp_result>>

psVars == <<df, sheet_title, long_df, ps_pc, ps_result>>

locVars == <<doc, page_i, items, item_i, all_tables, current_title, current_panels>>

pipeVars == <<sheet_names, workbook, table_i, sheet_i, all_processed_sheets,
              consolidated_df>>

batchVars == <<pdf_files, pdf_i, excel_files, file_i>>

vars == <<ptpVars, psVars, locVars, pipeVars, batchVars, pc>>

\* what a step of one component leaves alone
notPtp == <<psVars, locVars, pipeVars, batchVars, pc>>

notPs == <<ptpVars, locVars, pipeVars, batchVars, pc>>

notLoc == <<ptpVars, psVars, pipeVars, batchVars>>

notPipe == <<ptpVars, psVars, locVars, batchVars>>

notBatch == <<ptpVars, psVars, locVars>>

(***************************************************************************)
(* Python str operations                                                   *)
(***************************************************************************)
UpperLetters == <<"A","B","C","D","E","F","G","H","I","J","K","L","M","N","O","P","Q","R","S","T","U","V","W","X","Y","Z">>

LowerLetters == <<"a","b","c","d","e","f","g","h","i","j","k","l","m","n","o","p","q","r","s","t","u","v","w","x","y","z">>

Digits == {"0","1","2","3","4","5","6","7","8","9"}

Range(f) == {f[i] : i \in DOMAIN f}

Letters == Range(UpperLetters) \cup Range(LowerLetters)

\* \w of the re module, on ASCII text
IsWordChar(c) == c \in Letters \cup Digits \cup {"_"}

\* what str.strip() removes
Whitespace == {" ", "\t", "\n"}

LowerOf == [c \in Range(UpperLetters) |->
               LowerLetters[CHOOSE i \in DOMAIN UpperLetters : UpperLetters[i] = c]]

LowerChar(c) == IF c \in DOMAIN LowerOf THEN LowerOf[c] ELSE c

\* str.lower()
Lower(s) == [i \in 1..Len(s) |-> LowerChar(s[i])]

RECURSIVE LStrip(_)
LStrip(s) ==
    IF s # <<>> /\ Head(s) \in Whitespace THEN LStrip(Tail(s)) ELSE s

RECURSIVE RStrip(_)
RStrip(s) ==
    IF s # <<>> /\ s[Len(s)] \in Whitespace
    THEN RStrip(SubSeq(s, 1, Len(s) - 1)) ELSE s

\* str.strip()
Strip(s) == RStrip(LStrip(s))

\* str.startswith(prefix)
StartsWith(s, prefix) ==
    Len(prefix) <= Len(s) /\ SubSeq(s, 1, Len(prefix)) = prefix

\* the substring test  sub in s
Contains(s, sub) ==
    \E i \in 1..(Len(s) - Len(sub) + 1) : SubSeq(s, i, i + Len(sub) - 1) = sub

\* sep.join(parts)
RECURSIVE Join(_, _)
Join(parts, sep) ==
    IF parts = <<>> THEN <<>>
    ELSE IF Len(parts) = 1 THEN parts[1]
    ELSE parts[1] \o sep \o Join(Tail(parts), sep)

\* str.replace(old, new), old not empty: every occurrence, left to right
RECURSIVE Replace(_, _, _)
Replace(s, old, new) ==
    IF Len(s) < Len(old) THEN s
    ELSE IF SubSeq(s, 1, Len(old)) = old
         THEN new \o Replace(SubSeq(s, Len(old) + 1, Len(s)), old, new)
         ELSE <<Head(s)>> \o Replace(Tail(s), old, new)

(***************************************************************************)
(* Python values of a raw table grid                                       *)
(***************************************************************************)
NoneCell == <<"None">>

NoneRow == << <<"None:row">> >>

NonePanel == << << <<"None:panel">> >> >>

\* a number cell: the tag "num" followed by the characters of its shortest
\* decimal text (40 and 40.0 are both "40"), which is also what str() gives
\* for an int and for a float that is not whole
IsNumCell(cell) == cell # <<>> /\ cell[1] = "num"

\* str(cell)
PyStr(cell) ==
    IF cell = NoneCell THEN <<"N","o","n","e">>
    ELSE IF IsNumCell(cell) THEN Tail(cell)
    ELSE cell

\* bool(cell): None, "" and 0 are false
Truthy(cell) ==
    IF cell = NoneCell THEN FALSE
    ELSE IF IsNumCell(cell) THEN cell # <<"num", "0">>
    ELSE cell # <<>>

\* str(cell or "").strip()
CleanCell(cell) == IF Truthy(cell) THEN Strip(PyStr(cell)) ELSE <<>>

(***************************************************************************)
(* process_table_panels                                                    *)
(***************************************************************************)
Months == { <<"J","a","n">>, <<"F","e","b">>, <<"M","a","r">>, <<"A","p","r">>,
            <<"M","a","y">>, <<"J","u","n">>, <<"J","u","l">>, <<"A","u","g">>,
            <<"S","e","p">>, <<"O","c","t">>, <<"N","o","v">>, <<"D","e","c">> }

\* the pattern \b(?:Jan|...|Dec)-\d{2}\b matches s at position p
PeriodAt(s, p) ==
    /\ p + 5 <= Len(s)
    /\ SubSeq(s, p, p + 2) \in Months
    /\ s[p + 3] = "-"
    /\ s[p + 4] \in Digits
    /\ s[p + 5] \in Digits
    /\ (p = 1 \/ ~IsWordChar(s[p - 1]))
    /\ (p + 5 = Len(s) \/ ~IsWordChar(s[p + 6]))

\* re.search of the period pattern in s
HasPeriod(s) == \E p \in 1..Len(s) : PeriodAt(s, p)

S_percentage_responses == <<"p","e","r","c","e","n","t","a","g","e"," ","r","e","s","p","o","n","s","e","s">>

S_applicable_only == <<"a","p","p","l","i","c","a","b","l","e"," ","o","n","l","y"," ","f","o","r"," ","t","h","o","s","e"," ","r","e","s","p","o","n","d","e","n","t","s">>

S_SurveyRound == <<"S","u","r","v","e","y"," ","R","o","u","n","d">>

junk_phrases == <<S_percentage_responses, S_applicable_only>>

\* iterating panels, a panel or a row that is None raises TypeError
RaisesTypeError(ps) ==
    \E i \in DOMAIN ps :
        \/ ps[i] = NonePanel
        \/ \E j \in DOMAIN ps[i] : ps[i][j] = NoneRow

\* all_rows: the panels flattened
RECURSIVE Flatten(_)
Flatten(ps) == IF ps = <<>> THEN <<>> ELSE Head(ps) \o Flatten(Tail(ps))

\* IsJunkRow without the .lower(): the phrase is matched case-sensitively
IsJunkRow_CaseSensitive(row) ==
    LET text == Join([i \in DOMAIN row |-> PyStr(row[i])], <<" ">>)
    IN  \E k \in DOMAIN junk_phrases : Contains(text, junk_phrases[k])

\* " ".join(map(str, row)).lower() holds a junk phrase
IsJunkRow(row) ==
    LET text == Lower(Join([i \in DOMAIN row |-> PyStr(row[i])], <<" ">>))
    IN  \E k \in DOMAIN junk_phrases : Contains(text, junk_phrases[k])

\* any(str(c or "").strip() for c in row)
HasText(row) == \E i \in DOMAIN row : CleanCell(row[i]) # <<>>

KeepRow(row) == HasText(row) /\ ~IsJunkRow(row)

\* string_rows
StringRows(all_rows) ==
    LET kept == SelectSeq(all_rows, KeepRow)
    IN  [k \in DOMAIN kept |-> [i \in DOMAIN kept[k] |-> CleanCell(kept[k][i])]]

IsDataRow(row) == HasPeriod(Join(row, <<" ">>))

\* ClassifyRow without the header_ended flag: each row is classified alone
ClassifyRow_PerRow(st, row) ==
    LET ended == IsDataRow(row)
    IN  [header_ended |-> ended,
         header_rows  |-> IF ended THEN st.header_rows ELSE Append(st.header_rows, row),
         body_rows    |-> IF ended THEN Append(st.body_rows, row) ELSE st.body_rows]

\* one pass of the loop over string_rows
ClassifyRow(st, row) ==
    LET ended == st.header_ended \/ IsDataRow(row)
    IN  [header_ended |-> ended,
         header_rows  |-> IF ended THEN st.header_rows ELSE Append(st.header_rows, row),
         body_rows    |-> IF ended THEN Append(st.body_rows, row) ELSE st.body_rows]

ClassifyInit == [header_ended |-> FALSE, header_rows |-> <<>>, body_rows |-> <<>>]

RECURSIVE ClassifyFrom(_, _)
ClassifyFrom(st, rows) ==
    IF rows = <<>> THEN st ELSE ClassifyFrom(ClassifyRow(st, Head(rows)), Tail(rows))

Max(S) == CHOOSE x \in S : \A y \in S : y <= x

\* MergeRow that overwrites the label instead of appending to it
MergeRow_Overwrite(mh, r) ==
    [i \in DOMAIN mh |-> IF i <= Len(r) /\ r[i] # <<>> THEN r[i] ELSE mh[i]]

\* merged_header after header row r is folded in
MergeRow(mh, r) ==
    [i \in DOMAIN mh |->
        IF i <= Len(r) /\ r[i] # <<>> THEN Strip(mh[i] \o <<" ">> \o r[i]) ELSE mh[i]]

RECURSIVE MergeRows(_, _)
MergeRows(mh, rows) ==
    IF rows = <<>> THEN mh ELSE MergeRows(MergeRow(mh, Head(rows)), Tail(rows))

\* any(cell for cell in row[1:])
HasValueCell(row) == \E i \in 2..Len(row) : row[i] # <<>>

\* the rows classified: the fallback, the body filter, the merged header
FinishPanels(srows, hrows, brows) ==
    LET inHeader(r) == \E k \in DOMAIN hrows : hrows[k] = r
        notInHeader(r) == ~inHeader(r)
        body0    == IF brows = <<>> THEN SelectSeq(srows, notInHeader) ELSE brows
        body     == SelectSeq(body0, HasValueCell)
        num_cols == Max({Len(srows[k]) : k \in DOMAIN srows})
        merged   == MergeRows([i \in 1..num_cols |-> <<>>], hrows)
        header   == IF body # <<>> /\ merged[1] = <<>> /\ HasPeriod(body[1][1])
                    THEN [merged EXCEPT ![1] = S_SurveyRound]
                    ELSE merged
    IN  << [header |-> header, body |-> body] >>

\* the whole function, for panels that do not raise
ProcessTablePanels(ps) ==
    LET srows == StringRows(Flatten(ps))
        st    == ClassifyFrom(ClassifyInit, srows)
    IN  IF srows = <<>> THEN <<>>
        ELSE FinishPanels(srows, st.header_rows, st.body_rows)

(***************************************************************************)
(* process_table_panels, one call, row by row                              *)
(***************************************************************************)
S_CurrentPerception == <<"C","u","r","r","e","n","t"," ","P","e","r","c","e","p","t","i","o","n">>

S_mIncreased == <<"-","I","n","c","r","e","a","s","e","d">>

S_mSame == <<"-","S","a","m","e">>

S_mDecreased == <<"-","D","e","c","r","e","a","s","e","d">>

S_May25 == <<"M","a","y","-","2","5">>

S_Jun25 == <<"J","u","n","-","2","5">>

S_Note == <<"N","o","t","e">>

S_PercentageResponses == <<"P","e","r","c","e","n","t","a","g","e"," ","R","e","s","p","o","n","s","e","s">>

S_JunkPeriod == <<"J","u","n","-","2","5"," ","(","P","E","R","C","E","N","T","A","G","E"," ","R","E","S","P","O","N","S","E","S",")">>

S_Mar24sp == <<" ","M","a","r","-","2","4"," ">>

IntZero == <<"num", "0">>

RowHdr1 == <<S_CurrentPerception, <<>>, <<>>>>

RowHdr2 == <<S_mIncreased, S_mSame, S_mDecreased>>

RowMay == <<S_May25, <<"4","0">>, <<"3","5">>>>

RowJun == <<S_Jun25, <<"4","1">>, <<"3","6">>>>

RowNote == <<S_Note, <<"x">>>>

RowJunk == <<S_PercentageResponses, NoneCell>>

RowJunkPeriod == <<S_JunkPeriod, <<"4","1">>, <<"3","6">>>>

RowEmpty == <<NoneCell, <<" ">>, IntZero>>

RowBarePeriod == <<S_Mar24sp, <<>>>>

\* the raw rows a panel is made of
RowPool == {RowHdr1, RowHdr2, RowMay, RowNote, RowJunk, RowJunkPeriod,
            RowEmpty, RowBarePeriod, NoneRow}

\* the most rows one call is given
MaxRows == 3

SeqsUpTo(S, n) == UNION {[1..k -> S] : k \in 0..n}

\* the panels one call may be given: the rows in one panel, or split over
\* two panels at any place, or after a panel that is None; or no panel
PanelInputs ==
    {<<>>}
    \cup {<<rows>> : rows \in SeqsUpTo(RowPool, MaxRows)}
    \cup {<<SubSeq(r.rows, 1, r.split), SubSeq(r.rows, r.split + 1, Len(r.rows))>> :
            r \in {x \in [rows : SeqsUpTo(RowPool, MaxRows), split : 0..MaxRows] :
                     x.split <= Len(x.rows)}}
    \cup {<<NonePanel, rows>> : rows \in SeqsUpTo(RowPool, 1)}

PtpIdle ==
    /\ panels = <<>>
    /\ string_rows = <<>>
    /\ header_rows = <<>>
    /\ body_rows = <<>>
    /\ header_ended = FALSE
    /\ row_i = 0
    /\ ptp_pc = "idle"
    /\ ptp_result = <<>>

PtpInit ==
    /\ panels \in PanelInputs
    /\ string_rows = <<>>
    /\ header_rows = <<>>
    /\ body_rows = <<>>
    /\ header_ended = FALSE
    /\ row_i = 0
    /\ ptp_pc = "start"
    /\ ptp_result = <<>>

\* lines 137-146: flatten, clean; TypeError, or return [] when nothing is left
PtpClean ==
    /\ ptp_pc = "start"
    /\ IF RaisesTypeError(panels)
       THEN /\ ptp_pc' = "raised"
            /\ UNCHANGED <<string_rows, row_i>>
       ELSE /\ string_rows' = StringRows(Flatten(panels))
            /\ ptp_pc' = IF string_rows' = <<>> THEN "returned" ELSE "loop"
            /\ row_i' = 1
    /\ UNCHANGED <<panels, header_rows, body_rows, header_ended, ptp_result>>
    /\ UNCHANGED notPtp

\* lines 147-150: one row of the loop
PtpClassifyRow ==
    /\ ptp_pc = "loop"
    /\ row_i <= Len(string_rows)
    /\ LET st == ClassifyRow([header_ended |-> header_ended,
                              header_rows |-> header_rows,
                              body_rows |-> body_rows], string_rows[row_i])
       IN  /\ header_ended' = st.header_ended
           /\ header_rows' = st.header_rows
           /\ body_rows' = st.body_rows
    /\ row_i' = row_i + 1
    /\ UNCHANGED <<panels, string_rows, ptp_pc, ptp_result>>
    /\ UNCHANGED notPtp

\* lines 151-164: the loop is over
PtpFinish ==
    /\ ptp_pc = "loop"
    /\ row_i > Len(string_rows)
    /\ ptp_result' = FinishPanels(string_rows, header_rows, body_rows)
    /\ ptp_pc' = "returned"
    /\ UNCHANGED <<panels, string_rows, header_rows, body_rows, header_ended, row_i>>
    /\ UNCHANGED notPtp

PtpNext == PtpClean \/ PtpClassifyRow \/ PtpFinish

(***************************************************************************)
(* Claims about process_table_panels (SpecPanels)                          *)
(***************************************************************************)
Min(S) == CHOOSE x \in S : \A y \in S : x <= y

\* the rows of string_rows the loop has been through
RowsDone == IF ptp_pc \in {"loop", "returned"} /\ row_i > 0 THEN row_i - 1 ELSE 0

\* the index of the first of the first n rows that matches the period
\* pattern, n + 1 when none does
FirstPeriodRow(n) ==
    LET hits == {j \in 1..n : HasPeriod(Join(string_rows[j], <<" ">>))}
    IN  IF hits = {} THEN n + 1 ELSE Min(hits)

C4_Split ==
    LET n == RowsDone
        k == FirstPeriodRow(n)
    IN  /\ header_rows = SubSeq(string_rows, 1, k - 1)
        /\ ptp_pc = "loop" => body_rows = SubSeq(string_rows, k, n)
        /\ header_ended = (k <= n)
        /\ (ptp_pc = "returned" /\ string_rows # <<>> /\ k > n) =>
               /\ header_rows = string_rows
               /\ ptp_result[1].body = <<>>

\* C4: the header/body classification is one irreversible InHeader -> InBody
\* transition: with k the first row that matches the period pattern, the rows
\* before k are the header rows, row k and every later row are body
\* candidates, and header_ended never goes back to FALSE; when no row
\* matches, every row is a header row and the returned body is empty.
C4_HeaderThenBody ==
    /\ []C4_Split
    /\ [][/\ header_ended => header_ended'
          /\ header_ended => header_rows' = header_rows]_vars

\* a call that has returned with a header row, the first period row and a
\* later row that does not match the pattern among the body candidates
C4_Witness ==
    /\ ptp_pc = "returned"
    /\ header_rows # <<>>
    /\ Len(body_rows) >= 2
    /\ ~IsDataRow(body_rows[2])

S_CP_Increased == <<"C","u","r","r","e","n","t"," ","P","e","r","c","e","p","t","i","o","n"," ","-","I","n","c","r","e","a","s","e","d">>

S_CP_Same == <<"C","u","r","r","e","n","t"," ","P","e","r","c","e","p","t","i","o","n"," ","-","S","a","m","e">>

\* the call of C5: the two header rows, then the one body row
C5_Case ==
    /\ ptp_pc = "returned"
    /\ Flatten(panels) = <<RowHdr1, RowHdr2, RowMay>>

\* C5 (amended): for header rows ["Current Perception", "", ""] and
\* ["-Increased", "-Same", "-Decreased"] and body row ["May-25", "40", "35"]
\* the merged header is ["Current Perception -Increased", "-Same",
\* "-Decreased"] (a column merges its own cells only) and the body is the
\* one body row unchanged.
C5_MergedHeader ==
    C5_Case =>
        /\ Len(ptp_result) = 1
        /\ ptp_result[1].header = <<S_CP_Increased, S_mSame, S_mDecreased>>
        /\ ptp_result[1].body = <<RowMay>>

\* C5 as claimed: the second column is "Current Perception -Same"
C5_AsClaimed ==
    C5_Case =>
        /\ Len(ptp_result) = 1
        /\ ptp_result[1].header[1] = S_CP_Increased
        /\ ptp_result[1].header[2] = S_CP_Same
        /\ ptp_result[1].body = <<RowMay>>

C5_Witness == C5_Case /\ ptp_result # <<>> /\ ptp_result[1].header[1] = S_CP_Increased

\* the row's space-joined cell text holds "percentage responses", any case
C6_IsPercentageRow(row) ==
    Contains(Lower(Join([i \in DOMAIN row |-> PyStr(row[i])], <<" ">>)),
             S_percentage_responses)

C6_NotPercentageRow(row) == ~C6_IsPercentageRow(row)

C6_WithoutPercentageRows(ps) ==
    [i \in DOMAIN ps |-> SelectSeq(ps[i], C6_NotPercentageRow)]

\* C6: a row that holds "percentage responses" in any letter case gives the
\* result nothing: the call returns what it returns for the panels with
\* those rows taken out, and no returned body cell holds the phrase.
C6_JunkAbsent ==
    ptp_pc = "returned" =>
        /\ ptp_result = ProcessTablePanels(C6_WithoutPercentageRows(panels))
        /\ \A t \in DOMAIN ptp_result :
             \A r \in DOMAIN ptp_result[t].body :
               \A c \in DOMAIN ptp_result[t].body[r] :
                 ~Contains(Lower(ptp_result[t].body[r][c]), S_percentage_responses)

\* a call that returned a body although a junk row followed its period row
C6_Witness ==
    /\ ptp_pc = "returned"
    /\ ptp_result # <<>>
    /\ ptp_result[1].body # <<>>
    /\ LET rows == Flatten(panels)
       IN  \E i, j \in DOMAIN rows :
             i < j /\ IsDataRow(rows[i]) /\ ~C6_IsPercentageRow(rows[i])
                   /\ C6_IsPercentageRow(rows[j])

\* C7 as claimed: the call never raises, and returns the empty result when
\* no row survives cleaning
C7_NeverRaises ==
    /\ ptp_pc # "raised"
    /\ (ptp_pc = "returned" /\ string_rows = <<>>) => ptp_result = <<>>

(***************************************************************************)
(* consolidate_data.py: parse_survey_round, extract_perception_category,   *)
(* process_sheet                                                           *)
(***************************************************************************)
\* a float that is NaN
NaN == <<"NaN">>

DigitSeq == <<"0","1","2","3","4","5","6","7","8","9">>

DigitVal(c) == (CHOOSE i \in DOMAIN DigitSeq : DigitSeq[i] = c) - 1

IsDigits(s) == \A i \in DOMAIN s : s[i] \in Digits

RECURSIVE StripLeadingZeros(_)
StripLeadingZeros(s) ==
    IF s # <<>> /\ Head(s) = "0" THEN StripLeadingZeros(Tail(s)) ELSE s

RECURSIVE StripTrailingZeros(_)
StripTrailingZeros(s) ==
    IF s # <<>> /\ s[Len(s)] = "0"
    THEN StripTrailingZeros(SubSeq(s, 1, Len(s) - 1)) ELSE s

\* the number that the decimal text s (sign, digits, point, digits) denotes,
\* NaN when s is no such text; texts with blanks, exponents, "inf" or "nan"
\* are not among the inputs
ParseDecimal(s) ==
    LET signed == s # <<>> /\ s[1] \in {"-", "+"}
        body   == IF signed THEN Tail(s) ELSE s
        dots   == {i \in DOMAIN body : body[i] = "."}
        d      == IF dots = {} THEN Len(body) + 1 ELSE CHOOSE i \in dots : \A j \in dots : i <= j
        ip     == SubSeq(body, 1, d - 1)
        fp     == SubSeq(body, d + 1, Len(body))
        ok     == IsDigits(ip) /\ IsDigits(fp) /\ (ip # <<>> \/ fp # <<>>)
        ci     == IF StripLeadingZeros(ip) = <<>> THEN <<"0">> ELSE StripLeadingZeros(ip)
        cf     == StripTrailingZeros(fp)
        minus  == IF signed /\ s[1] = "-" /\ ~(ci = <<"0">> /\ cf = <<>>) THEN <<"-">> ELSE <<>>
    IN  IF ~ok THEN NaN
        ELSE <<"num">> \o minus \o ci \o (IF cf = <<>> THEN <<>> ELSE <<".">> \o cf)

\* pd.to_numeric(errors='coerce') of one value
ToNumeric(x) ==
    IF x = NoneCell \/ x = NaN THEN NaN
    ELSE IF IsNumCell(x) THEN x
    ELSE ParseDecimal(x)

\* pd.isna
IsNull(x) == x = NoneCell \/ x = NaN

MonthNames == << <<"j","a","n">>, <<"f","e","b">>, <<"m","a","r">>, <<"a","p","r">>,
                 <<"m","a","y">>, <<"j","u","n">>, <<"j","u","l">>, <<"a","u","g">>,
                 <<"s","e","p">>, <<"o","c","t">>, <<"n","o","v">>, <<"d","e","c">> >>

MonthDigits == << <<"0","1">>, <<"0","2">>, <<"0","3">>, <<"0","4">>, <<"0","5">>, <<"0","6">>,
                  <<"0","7">>, <<"0","8">>, <<"0","9">>, <<"1","0">>, <<"1","1">>, <<"1","2">> >>

\* %y: 00..68 are 2000..2068, 69..99 are 1969..1999
PivotYear == 68

\* parse_survey_round: strptime(date_str, '%b-%y') takes the whole string,
\* the month name in any letter case; the result is 'YYYY-MM-01'
ParseSurveyRound(date_str) ==
    IF date_str = NoneCell \/ date_str = NaN \/ IsNumCell(date_str) THEN NoneCell
    ELSE IF /\ Len(date_str) = 6
            /\ \E m \in DOMAIN MonthNames : Lower(SubSeq(date_str, 1, 3)) = MonthNames[m]
            /\ date_str[4] = "-"
            /\ date_str[5] \in Digits
            /\ date_str[6] \in Digits
         THEN LET m  == CHOOSE k \in DOMAIN MonthNames :
                            Lower(SubSeq(date_str, 1, 3)) = MonthNames[k]
                  yy == 10 * DigitVal(date_str[5]) + DigitVal(date_str[6])
                  century == IF yy <= PivotYear THEN <<"2","0">> ELSE <<"1","9">>
              IN  century \o <<date_str[5], date_str[6], "-">> \o MonthDigits[m]
                          \o <<"-","0","1">>
         ELSE NoneCell

S_General == <<"G","e","n","e","r","a","l">>

\* the text of s up to its first line break: what (.+) takes
UpToLineBreak(s) ==
    LET brk == {i \in DOMAIN s : s[i] = "\n"}
    IN  IF brk = {} THEN s ELSE SubSeq(s, 1, (CHOOSE i \in brk : \A j \in brk : i <= j) - 1)

\* on\s(.+) matches s at p, any letter case
OnAt(s, p) ==
    /\ p + 3 <= Len(s)
    /\ Lower(SubSeq(s, p, p + 1)) = <<"o","n">>
    /\ s[p + 2] \in Whitespace
    /\ s[p + 3] # "\n"

\* for\s(.+) matches s at p, any letter case
ForAt(s, p) ==
    /\ p + 4 <= Len(s)
    /\ Lower(SubSeq(s, p, p + 2)) = <<"f","o","r">>
    /\ s[p + 3] \in Whitespace
    /\ s[p + 4] # "\n"

RemoveChars(s, cs) == SelectSeq(s, LAMBDA c : c \notin cs)

\* extract_perception_category
ExtractPerceptionCategory(title) ==
    LET hits == {p \in DOMAIN title : OnAt(title, p) \/ ForAt(title, p)}
    IN  IF hits = {} THEN S_General
        ELSE LET p == CHOOSE i \in hits : \A j \in hits : i <= j
                 from == IF OnAt(title, p) THEN p + 3 ELSE p + 4
                 category == UpToLineBreak(SubSeq(title, from, Len(title)))
             IN  Strip(RemoveChars(category, {"*", ":"}))

S_OneYearAhead == <<"O","n","e"," ","y","e","a","r"," ","a","h","e","a","d"," ","E","x","p","e","c","t","a","t","i","o","n">>

S_NetResponse == <<"N","e","t"," ","R","e","s","p","o","n","s","e">>

perception_types == <<S_CurrentPerception, S_OneYearAhead>>

\* PerceptionType that ignores the letter case of the label
PerceptionType_AnyCase(metric) ==
    LET hits == {k \in DOMAIN perception_types :
                    StartsWith(Lower(PyStr(metric)), Lower(perception_types[k]))}
    IN  IF hits = {} THEN S_NetResponse
        ELSE perception_types[CHOOSE k \in hits : \A j \in hits : k <= j]

\* lines 107-109: the first horizon phrase that str(metric) starts with
PerceptionType(metric) ==
    LET hits == {k \in DOMAIN perception_types :
                    StartsWith(PyStr(metric), perception_types[k])}
    IN  IF hits = {} THEN S_NetResponse
        ELSE perception_types[CHOOSE k \in hits : \A j \in hits : k <= j]

\* lines 112-117
ResponseCategory(metric, ptype) ==
    IF ptype = S_NetResponse THEN S_NetResponse
    ELSE Strip(Replace(Replace(PyStr(metric), ptype, <<>>), <<"-">>, <<>>))

\* a DataFrame is [columns : the labels, rows : the rows of cells]
HasSurveyRound(d) == \E i \in DOMAIN d.columns : d.columns[i] = S_SurveyRound

\* pd.melt(df, id_vars='survey_round'): the value columns one after another,
\* each with all rows; the new index counts from 0
Melt(d) ==
    LET id == CHOOSE i \in DOMAIN d.columns : d.columns[i] = S_SurveyRound
        vc == SelectSeq([i \in DOMAIN d.columns |-> i], LAMBDA i : i # id)
        N  == Len(d.rows)
    IN  [n \in 1..(N * Len(vc)) |->
            LET c == vc[((n - 1) \div N) + 1]
                r == ((n - 1) % N) + 1
            IN  [index               |-> n - 1,
                 survey_round        |-> d.rows[r][id],
                 metric              |-> d.columns[c],
                 response_percentage |-> d.rows[r][c]]]

\* lines 107-125: the derived columns, the period parsed
Derive(long, title) ==
    [n \in DOMAIN long |->
        [index               |-> long[n].index,
         survey_round        |-> ParseSurveyRound(long[n].survey_round),
         perception_category |-> ExtractPerceptionCategory(title),
         perception_type     |-> PerceptionType(long[n].metric),
         response_category   |-> ResponseCategory(long[n].metric, PerceptionType(long[n].metric)),
         response_percentage |-> long[n].response_percentage]]

\* line 130
DropMissing(long) ==
    SelectSeq(long, LAMBDA o : ~IsNull(o.survey_round) /\ ~IsNull(o.response_percentage))

\* line 133
CoerceNumeric(long) ==
    [n \in DOMAIN long |->
        [long[n] EXCEPT !.response_percentage = ToNumeric(long[n].response_percentage)]]

\* lines 133-134 without the second dropna
CoerceAndDrop_KeepNaN(long) == CoerceNumeric(long)

\* lines 133-134
CoerceAndDrop(long) ==
    SelectSeq(CoerceNumeric(long), LAMBDA o : ~IsNull(o.response_percentage))

\* process_sheet; the rows keep the index melt gave them
ProcessSheet(d, title) ==
    IF ~HasSurveyRound(d) THEN <<>>
    ELSE CoerceAndDrop(DropMissing(Derive(Melt(d), title)))

(***************************************************************************)
(* process_sheet, one call                                                 *)
(***************************************************************************)
S_CP_NetResponse == <<"C","u","r","r","e","n","t"," ","P","e","r","c","e","p","t","i","o","n","-","N","e","t"," ","R","e","s","p","o","n","s","e">>

S_OYA_WillIncrease == <<"O","n","e"," ","y","e","a","r"," ","a","h","e","a","d"," ","E","x","p","e","c","t","a","t","i","o","n","-"," ","W","i","l","l"," ","I","n","c","r","e","a","s","e">>

S_cp_Up == <<"c","u","r","r","e","n","t"," ","p","e","r","c","e","p","t","i","o","n"," ","-","U","p">>

S_CP_NonEssential == <<"C","u","r","r","e","n","t"," ","P","e","r","c","e","p","t","i","o","n"," ","-","N","o","n","-","e","s","s","e","n","t","i","a","l">>

S_jun99 == <<"j","u","n","-","9","9">>

S_May2025 == <<"M","a","y","-","2","0","2","5">>

S_Title1 == <<"T","a","b","l","e"," ","1",":"," ","P","e","r","c","e","p","t","i","o","n","s"," ","o","n"," ","I","n","f","l","a","t","i","o","n">>

S_Title2 == <<"T","a","b","l","e"," ","2",":"," ","P","e","r","c","e","p","t","i","o","n"," ","o","n"," ","I","n","c","o","m","e","*">>

\* the metric labels of a sheet's header
LabelPool == {S_CP_Increased, S_CP_NetResponse, S_OYA_WillIncrease, S_cp_Up,
              S_CP_NonEssential}

\* the value cells of a row, column after column
ValueCycle == << <<"4","0">>, <<"N","A">>, <<"num","3","5",".","5">>, NoneCell >>

\* the body rows: the period cell and where in ValueCycle the values start
RowPatterns == {[period |-> S_May25,   shift |-> 0],
                [period |-> S_jun99,   shift |-> 1],
                [period |-> S_May2025, shift |-> 2],
                [period |-> NoneCell,  shift |-> 3]}

SheetRow(pat, width) ==
    [c \in 1..width |->
        IF c = 1 THEN pat.period
        ELSE ValueCycle[((pat.shift + c - 2) % Len(ValueCycle)) + 1]]

\* the most value columns and the most body rows of a sheet
MaxValueCols == 2

MaxSheetRows == 2

\* headers with the period column first, and two without it
SheetHeaders ==
    {<<S_SurveyRound>> \o labels : labels \in SeqsUpTo(LabelPool, MaxValueCols) \ {<<>>}}
    \cup {<<S_CP_Increased, S_mSame>>, <<NoneCell, S_CP_Increased>>}

SheetInputs ==
    {[columns |-> h, rows |-> [k \in DOMAIN pats |-> SheetRow(pats[k], Len(h))]] :
        h \in SheetHeaders, pats \in SeqsUpTo(RowPatterns, MaxSheetRows)}

SheetTitles == {S_Title1, S_Title2}

NoFrame == [columns |-> <<>>, rows |-> <<>>]

PsIdle ==
    /\ df = NoFrame
    /\ sheet_title = <<>>
    /\ long_df = <<>>
    /\ ps_pc = "idle"
    /\ ps_result = <<>>

PsInit ==
    /\ df \in SheetInputs
    /\ sheet_title \in SheetTitles
    /\ long_df = <<>>
    /\ ps_pc = "start"
    /\ ps_result = <<>>

\* lines 87-99: no 'Survey Round' column returns the empty frame, else melt
PsMelt ==
    /\ ps_pc = "start"
    /\ IF HasSurveyRound(df)
       THEN long_df' = Melt(df) /\ ps_pc' = "derive"
       ELSE long_df' = long_df /\ ps_pc' = "returned"
    /\ UNCHANGED <<df, sheet_title, ps_result>>
    /\ UNCHANGED notPs

\* lines 104-125
PsDerive ==
    /\ ps_pc = "derive"
    /\ long_df' = Derive(long_df, sheet_title)
    /\ ps_pc' = "clean"
    /\ UNCHANGED <<df, sheet_title, ps_result>>
    /\ UNCHANGED notPs

\* lines 130-145
PsClean ==
    /\ ps_pc = "clean"
    /\ long_df' = CoerceAndDrop(DropMissing(long_df))
    /\ ps_result' = long_df'
    /\ ps_pc' = "returned"
    /\ UNCHANGED <<df, sheet_title>>
    /\ UNCHANGED notPs

PsNext == PsMelt \/ PsDerive \/ PsClean

(***************************************************************************)
(* Claims about process_sheet (SpecSheet)                                  *)
(***************************************************************************)
\* the value columns of df, and the (row, value column) pair with melt index n
PsValueCols ==
    SelectSeq([i \in DOMAIN df.columns |-> i], LAMBDA i : df.columns[i] # S_SurveyRound)

PsPeriodCol == CHOOSE i \in DOMAIN df.columns : df.columns[i] = S_SurveyRound

PsIndexOf(r, k) == (k - 1) * Len(df.rows) + (r - 1)

PsLabelOf(o) == df.columns[PsValueCols[(o.index \div Len(df.rows)) + 1]]

\* the value cell is a number or the text of one
C8_IsNumber(x) ==
    \/ IsNumCell(x)
    \/ /\ \E i \in DOMAIN x : x[i] \in Digits
       /\ \A i \in DOMAIN x : x[i] \in Digits \cup {"."}
       /\ Cardinality({i \in DOMAIN x : x[i] = "."}) <= 1

\* the period cell is a month abbreviation, a hyphen and two digits
C8_IsPeriod(x) == x \in {S_May25, S_Jun25, S_jun99}

\* C8: of a table that has the period column, every (body row, non-period
\* column) pair gives exactly one observation when the row's period cell
\* parses and the value cell is a number, and none otherwise; no observation
\* has a null period or a value that is not a number.
C8_OnePerValidPair ==
    (ps_pc = "returned" /\ HasSurveyRound(df)) =>
        /\ \A r \in DOMAIN df.rows : \A k \in DOMAIN PsValueCols :
             LET got == {n \in DOMAIN ps_result : ps_result[n].index = PsIndexOf(r, k)}
                 valid == /\ C8_IsPeriod(df.rows[r][PsPeriodCol])
                          /\ C8_IsNumber(df.rows[r][PsValueCols[k]])
             IN  /\ Cardinality(got) = IF valid THEN 1 ELSE 0
                 /\ \A n \in got :
                      /\ ps_result[n].survey_round = ParseSurveyRound(df.rows[r][PsPeriodCol])
                      /\ ps_result[n].response_percentage = ToNumeric(df.rows[r][PsValueCols[k]])
        /\ \A n \in DOMAIN ps_result :
             /\ ps_result[n].index \in 0..(Len(df.rows) * Len(PsValueCols) - 1)
             /\ ps_result[n].survey_round # NoneCell
             /\ IsNumCell(ps_result[n].response_percentage)

\* a returned table with an observation, a pair dropped for its period and a
\* pair dropped for its value
C8_Witness ==
    /\ ps_pc = "returned"
    /\ HasSurveyRound(df)
    /\ ps_result # <<>>
    /\ \E r \in DOMAIN df.rows : df.rows[r][PsPeriodCol] = S_May2025
    /\ \E r \in DOMAIN df.rows : \E k \in DOMAIN PsValueCols :
          /\ C8_IsPeriod(df.rows[r][PsPeriodCol])
          /\ df.rows[r][PsValueCols[k]] = <<"N","A">>

\* C9: perception_type is one of the three labels: the horizon phrase the
\* metric label starts with (case-sensitive), "Net Response" when it starts
\* with neither; an observation of type "Net Response" has response_category
\* "Net Response".
C9_PerceptionType ==
    ps_pc = "returned" =>
        \A n \in DOMAIN ps_result :
            LET o == ps_result[n]
                label == PyStr(PsLabelOf(o))
            IN  /\ o.perception_type \in {S_CurrentPerception, S_OneYearAhead, S_NetResponse}
                /\ StartsWith(label, S_CurrentPerception) =>
                       o.perception_type = S_CurrentPerception
                /\ StartsWith(label, S_OneYearAhead) =>
                       o.perception_type = S_OneYearAhead
                /\ (~StartsWith(label, S_CurrentPerception) /\ ~StartsWith(label, S_OneYearAhead)) =>
                       o.perception_type = S_NetResponse
                /\ o.perception_type = S_NetResponse => o.response_category = S_NetResponse

\* observations of a label that starts with a phrase in lower case, and of a
\* label that starts with a phrase as written
C9_Witness ==
    /\ ps_pc = "returned"
    /\ \E n \in DOMAIN ps_result : PsLabelOf(ps_result[n]) = S_cp_Up
    /\ \E n \in DOMAIN ps_result : PsLabelOf(ps_result[n]) = S_OYA_WillIncrease

\* the bucket text of a label made of a horizon phrase, an optional hyphen
\* with optional spaces, and the bucket text
C10_Bucket(label, phrase) ==
    LET rest == LStrip(SubSeq(label, Len(phrase) + 1, Len(label)))
    IN  Strip(IF rest # <<>> /\ rest[1] = "-" THEN Tail(rest) ELSE rest)

\* C10 as claimed: response_category is the bucket text itself
C10_BucketUnchanged ==
    ps_pc = "returned" =>
        \A n \in DOMAIN ps_result :
            LET o == ps_result[n]
                label == PyStr(PsLabelOf(o))
            IN  \A k \in DOMAIN perception_types :
                    (o.perception_type = perception_types[k] /\ StartsWith(label, perception_types[k]))
                        => o.response_category = C10_Bucket(label, perception_types[k])

\* the word w (lower case) stands in s at p, no word character on either side
C11_WordAt(s, w, p) ==
    /\ p + Len(w) - 1 <= Len(s)
    /\ Lower(SubSeq(s, p, p + Len(w) - 1)) = w
    /\ (p = 1 \/ ~IsWordChar(s[p - 1]))
    /\ (p + Len(w) > Len(s) \/ ~IsWordChar(s[p + Len(w)]))

\* what is left of s without its trailing `*`, `:` and whitespace
RECURSIVE C11_StripTrailing(_)
C11_StripTrailing(s) ==
    IF s # <<>> /\ s[Len(s)] \in Whitespace \cup {"*", ":"}
    THEN C11_StripTrailing(SubSeq(s, 1, Len(s) - 1)) ELSE s

\* the category as stated: the text after the first word "on" or "for"
C11_TextAfterWord(title) ==
    LET on   == {p \in DOMAIN title : C11_WordAt(title, <<"o","n">>, p)}
        for  == {p \in DOMAIN title : C11_WordAt(title, <<"f","o","r">>, p)}
        hits == on \cup for
    IN  IF hits = {} THEN S_General
        ELSE LET p == CHOOSE i \in hits : \A j \in hits : i <= j
                 from == IF p \in on THEN p + 2 ELSE p + 3
             IN  C11_StripTrailing(LStrip(SubSeq(title, from, Len(title))))

\* C11 as claimed: perception_category of every observation is the text that
\* follows the first word "on" or "for" of the title, without its trailing
\* `*`, `:` and whitespace, and "General" when the title has no such word
C11_CategoryAfterWord ==
    ps_pc = "returned" =>
        \A n \in DOMAIN ps_result :
            ps_result[n].perception_category = C11_TextAfterWord(sheet_title)

(***************************************************************************)
(* extract_pdf_data                                                        *)
(*                                                                         *)
(* A page is [lines, tables]: what extract_text_lines and find_tables      *)
(* give, each line [top, text], each table [top, grid] with top = bbox[1]  *)
(* and grid = extract().                                                   *)
(***************************************************************************)
S_DefaultTitle == <<"S","u","m","m","a","r","y"," ","b","a","s","e","d"," ","o","n"," ","N","e","t"," ","R","e","s","p","o","n","s","e","s">>

S_table_ == <<"t","a","b","l","e"," ">>

\* line['text'].lower().startswith("table ")
IsTitleLine(line) == StartsWith(Lower(line.text), S_table_)

\* the list that is sorted: the title lines, then the tables
PageItems(page) ==
    LET titles == SelectSeq(page.lines, IsTitleLine)
    IN  [i \in DOMAIN titles |->
            [type |-> "title", top |-> titles[i].top, data |-> titles[i].text]]
        \o [i \in DOMAIN page.tables |->
            [type |-> "table", top |-> page.tables[i].top, data |-> page.tables[i].grid]]

\* x put into the sorted list s behind every entry whose top is not larger
RECURSIVE InsertByTop(_, _)
InsertByTop(s, x) ==
    IF s = <<>> THEN <<x>>
    ELSE IF x.top < Head(s).top THEN <<x>> \o s
    ELSE <<Head(s)>> \o InsertByTop(Tail(s), x)

\* SortItems that leaves the list as it was discovered
SortItems_Unsorted(s) == s

\* sorted(items, key=top): stable
RECURSIVE SortItems(_)
SortItems(s) ==
    IF s = <<>> THEN <<>>
    ELSE InsertByTop(SortItems(SubSeq(s, 1, Len(s) - 1)), s[Len(s)])

\* if current_panels: all_tables.append((current_title, current_panels))
Flush(tables, title, pans) ==
    IF pans # <<>> THEN Append(tables, [title |-> title, panels |-> pans]) ELSE tables

\* FinalFlush left out
FinalFlush_Missing(tables, title, pans) == tables

\* line 182: the flush after the last page
FinalFlush(tables, title, pans) == Flush(tables, title, pans)

\* the whole function
RECURSIVE WalkItems(_, _)
WalkItems(st, its) ==
    IF its = <<>> THEN st
    ELSE LET it == Head(its)
         IN  WalkItems(
                 IF it.type = "title"
                 THEN [all_tables |-> Flush(st.all_tables, st.current_title, st.current_panels),
                       current_title |-> it.data, current_panels |-> <<>>]
                 ELSE [st EXCEPT !.current_panels = Append(@, it.data)],
                 Tail(its))

RECURSIVE WalkPages(_, _)
WalkPages(st, pages) ==
    IF pages = <<>> THEN st
    ELSE WalkPages(WalkItems(st, SortItems(PageItems(Head(pages)))), Tail(pages))

ExtractPdfData(d) ==
    LET st == WalkPages([all_tables |-> <<>>, current_title |-> S_DefaultTitle,
                         current_panels |-> <<>>], d)
    IN  FinalFlush(st.all_tables, st.current_title, st.current_panels)

LocIdle ==
    /\ doc = <<>>
    /\ page_i = 0
    /\ items = <<>>
    /\ item_i = 0
    /\ all_tables = <<>>
    /\ current_title = <<>>
    /\ current_panels = <<>>

\* line 168, the document opened
LocStart(docs) ==
    /\ doc \in docs
    /\ page_i = 1
    /\ items = <<>>
    /\ item_i = 0
    /\ all_tables = <<>>
    /\ current_title = S_DefaultTitle
    /\ current_panels = <<>>
    /\ pc = "page"

\* lines 170-175: the next page's items, sorted
LocSortPage ==
    /\ pc = "page"
    /\ page_i <= Len(doc)
    /\ items' = SortItems(PageItems(doc[page_i]))
    /\ item_i' = 1
    /\ pc' = "items"
    /\ UNCHANGED <<doc, page_i, all_tables, current_title, current_panels>>
    /\ UNCHANGED notLoc

\* lines 177-179
LocTitleItem ==
    /\ pc = "items"
    /\ item_i <= Len(items)
    /\ items[item_i].type = "title"
    /\ all_tables' = Flush(all_tables, current_title, current_panels)
    /\ current_title' = items[item_i].data
    /\ current_panels' = <<>>
    /\ item_i' = item_i + 1
    /\ UNCHANGED <<doc, page_i, items, pc>>
    /\ UNCHANGED notLoc

\* lines 180-181
LocTableItem ==
    /\ pc = "items"
    /\ item_i <= Len(items)
    /\ items[item_i].type = "table"
    /\ current_panels' = Append(current_panels, items[item_i].data)
    /\ item_i' = item_i + 1
    /\ UNCHANGED <<doc, page_i, items, all_tables, current_title, pc>>
    /\ UNCHANGED notLoc

\* the page's items are done
LocNextPage ==
    /\ pc = "items"
    /\ item_i > Len(items)
    /\ page_i' = page_i + 1
    /\ pc' = "page"
    /\ UNCHANGED <<doc, items, item_i, all_tables, current_title, current_panels>>
    /\ UNCHANGED notLoc

\* lines 182-183: the last flush, and the return
LocReturn ==
    /\ pc = "page"
    /\ page_i > Len(doc)
    /\ all_tables' = FinalFlush(all_tables, current_title, current_panels)
    /\ pc' = "extracted"
    /\ UNCHANGED <<doc, page_i, items, item_i, current_title, current_panels>>
    /\ UNCHANGED notLoc

LocNext == LocSortPage \/ LocTitleItem \/ LocTableItem \/ LocNextPage \/ LocReturn

(***************************************************************************)
(* The documents extract_pdf_data is run on                                *)
(***************************************************************************)
RECURSIVE IntToStr(_)
IntToStr(n) ==
    IF n < 10 THEN <<DigitSeq[n + 1]>>
    ELSE IntToStr(n \div 10) \o <<DigitSeq[(n % 10) + 1]>>

\* the k-th title line of a document: "Table k", "table k", "TABLE k", ...
TitlePrefixes == << <<"T","a","b","l","e"," ">>, <<"t","a","b","l","e"," ">>,
                    <<"T","A","B","L","E"," ">> >>

TitleText(k) == TitlePrefixes[((k - 1) % 3) + 1] \o IntToStr(k)

\* the k-th table region of a document: one row, the period and the cell k
RegionGrid(k) == << <<S_May25, IntToStr(k)>> >>

\* a line that starts with "table" and is no title line
S_TablesFollow == <<"T","a","b","l","e","s"," ","f","o","l","l","o","w">>

\* the vertical positions on a page
Tops == {1, 2}

\* what a document is made of, in discovery order: the title lines and the
\* table regions of a page besides its line S_TablesFollow, and the page breaks
EntryPool == [kind : {"title", "table"}, top : Tops] \cup {[kind |-> "break", top |-> 0]}

\* the most entries of a document
MaxDocEntries == 4

\* the entries cut into pages at the page breaks
RECURSIVE SplitPages(_, _)
SplitPages(es, page) ==
    IF es = <<>> THEN <<page>>
    ELSE IF Head(es).kind = "break" THEN <<page>> \o SplitPages(Tail(es), <<>>)
    ELSE SplitPages(Tail(es), Append(page, Head(es)))

CountKind(es, kind) == Len(SelectSeq(es, LAMBDA e : e.kind = kind))

\* the page with entries es, after nt title lines and ng table regions
PageOf(es, nt, ng) ==
    LET ts == SelectSeq(es, LAMBDA e : e.kind = "title")
        gs == SelectSeq(es, LAMBDA e : e.kind = "table")
    IN  [lines  |-> <<[top |-> 1, text |-> S_TablesFollow]>>
                    \o [i \in DOMAIN ts |-> [top |-> ts[i].top, text |-> TitleText(nt + i)]],
         tables |-> [i \in DOMAIN gs |-> [top |-> gs[i].top, grid |-> RegionGrid(ng + i)]]]

RECURSIVE DocOf(_, _, _)
DocOf(shapes, nt, ng) ==
    IF shapes = <<>> THEN <<>>
    ELSE <<PageOf(Head(shapes), nt, ng)>>
         \o DocOf(Tail(shapes), nt + CountKind(Head(shapes), "title"),
                                ng + CountKind(Head(shapes), "table"))

LocatorDocs ==
    {DocOf(SplitPages(es, <<>>), 0, 0) : es \in SeqsUpTo(EntryPool, MaxDocEntries)}

(***************************************************************************)
(* Claims about extract_pdf_data (SpecLocator)                             *)
(***************************************************************************)
\* the table regions and the title lines of doc, each with its place: the
\* page, the vertical position, titles before tables, the place in its list
DocRegions ==
    UNION {{[page |-> p, top |-> doc[p].tables[j].top, rank |-> 1, idx |-> j,
             data |-> doc[p].tables[j].grid] : j \in DOMAIN doc[p].tables} :
           p \in DOMAIN doc}

C2_IsTitle(text) == Len(text) >= 6 /\ Lower(SubSeq(text, 1, 6)) = <<"t","a","b","l","e"," ">>

DocTitles ==
    UNION {{[page |-> p, top |-> doc[p].lines[i].top, rank |-> 0, idx |-> i,
             data |-> doc[p].lines[i].text] :
               i \in {n \in DOMAIN doc[p].lines : C2_IsTitle(doc[p].lines[n].text)}} :
           p \in DOMAIN doc}

\* a comes before b in reading order
Before(a, b) ==
    \/ a.page < b.page
    \/ a.page = b.page /\ a.top < b.top
    \/ a.page = b.page /\ a.top = b.top /\ a.rank < b.rank
    \/ a.page = b.page /\ a.top = b.top /\ a.rank = b.rank /\ a.idx < b.idx

\* the title the region r is expected under
ExpectedTitle(r) ==
    LET prior == {t \in DocTitles : Before(t, r)}
    IN  IF prior = {} THEN S_DefaultTitle
        ELSE (CHOOSE t \in prior : \A u \in prior : u = t \/ Before(u, t)).data

\* where the grid g is among the emitted groups
PlacesOf(g) ==
    UNION {{<<t, k>> : k \in {n \in DOMAIN all_tables[t].panels : all_tables[t].panels[n] = g}} :
           t \in DOMAIN all_tables}

\* the panels of the emitted groups, one after another
RECURSIVE EmittedPanels(_)
EmittedPanels(tables) ==
    IF tables = <<>> THEN <<>> ELSE Head(tables).panels \o EmittedPanels(Tail(tables))

\* C2: every table region is in exactly one emitted group, once: the group
\* of the nearest title line before it in reading order (on its page or an
\* earlier one), or a group with the default title when no title line comes
\* before it; none is lost at the end and no group has an empty title.
C2_EveryRegionOnce ==
    pc = "extracted" =>
        /\ \A r \in DocRegions :
             /\ Cardinality(PlacesOf(r.data)) = 1
             /\ \A o \in PlacesOf(r.data) : all_tables[o[1]].title = ExpectedTitle(r)
        /\ Len(EmittedPanels(all_tables)) = Cardinality(DocRegions)
        /\ \A t \in DOMAIN all_tables : all_tables[t].title # <<>>

\* a document with a region before any title line, a region on the second
\* page under a title line of the first, and the last region flushed at
\* the end
C2_Witness ==
    /\ pc = "extracted"
    /\ \E r \in DocRegions : ExpectedTitle(r) = S_DefaultTitle
    /\ \E r \in DocRegions : \E t \in DocTitles :
          r.page = 2 /\ t.page = 1 /\ ExpectedTitle(r) = t.data
    /\ all_tables # <<>>
    /\ all_tables[Len(all_tables)].panels = current_panels

\* the place in doc of an entry of items
PlaceOfItem(it) ==
    CHOOSE e \in DocRegions \cup DocTitles : e.page = page_i /\ e.data = it.data

RegionOfGrid(g) == CHOOSE r \in DocRegions : r.data = g

\* C3: tables are emitted in reading order: the entries of a page are walked
\* by ascending vertical position, entries of equal position in discovery
\* order, pages in page order; the panels of the emitted groups, in emission
\* order, are the document's table regions in that order.
C3_ReadingOrder ==
    /\ pc = "items" =>
          \A i, j \in DOMAIN items :
             i < j => /\ items[i].top <= items[j].top
                      /\ Before(PlaceOfItem(items[i]), PlaceOfItem(items[j]))
    /\ pc = "extracted" =>
          LET flat == EmittedPanels(all_tables)
          IN  /\ Len(flat) = Cardinality(DocRegions)
              /\ \A i, j \in DOMAIN flat :
                    i < j => Before(RegionOfGrid(flat[i]), RegionOfGrid(flat[j]))

\* a document with two regions of one page discovered against their
\* vertical order, and a title line at the position of a region
C3_Witness ==
    /\ pc = "extracted"
    /\ \E a, b \in DocRegions : a.page = b.page /\ a.idx < b.idx /\ b.top < a.top
    /\ \E r \in DocRegions : \E t \in DocTitles : r.page = t.page /\ r.top = t.top

(***************************************************************************)
(* clean_sheet_name and write_to_excel                                     *)
(*                                                                         *)
(* A workbook is its sheets in the order they were added, each [name,     *)
(* data]; data is what openpyxl's iter_rows gives on reading the sheet:    *)
(* the rows down to the last one written, each as wide as the widest row,  *)
(* a cell never written or written blank as None, a number as a number.    *)
(***************************************************************************)
\* the characters of the class [\[\]:*?/\\]
IllegalSheetChars == {"[", "]", ":", "*", "?", "/", "\\"}

\* [:31]
MaxSheetNameLen == 31

\* [:28]
BaseNameLen == 28

Prefix(s, n) == SubSeq(s, 1, IF Len(s) < n THEN Len(s) ELSE n)

\* Suffixed that counts from 0
Suffixed_FromZero(base_name, i) == base_name \o <<"_">> \o IntToStr(i - 1)

\* f"{base_name}_{i}"
Suffixed(base_name, i) == base_name \o <<"_">> \o IntToStr(i)

\* clean_sheet_name without the handling of a collision
clean_sheet_name_NoSuffix(name, existing_names) ==
    Prefix(Strip(RemoveChars(name, IllegalSheetChars)), MaxSheetNameLen)

clean_sheet_name(name, existing_names) ==
    LET clean == Prefix(Strip(RemoveChars(name, IllegalSheetChars)), MaxSheetNameLen)
        taken == Range(existing_names)
        base_name == Prefix(clean, BaseNameLen)
        \* the while loop ends at the first i whose name is free, one of the
        \* first len(existing_names) + 1
        free == {i \in 1..(Len(existing_names) + 1) : Suffixed(base_name, i) \notin taken}
    IN  IF clean \in taken
        THEN Suffixed(base_name, CHOOSE i \in free : \A j \in free : i <= j)
        ELSE clean

\* add_worksheet raises on a name of more than 31 characters, on a name
\* that starts or ends with an apostrophe, and on a name that some sheet of
\* the workbook already has, letter case ignored
AddWorksheetRaises(name, wb) ==
    \/ Len(name) > MaxSheetNameLen
    \/ (name # <<>> /\ (name[1] = "'" \/ name[Len(name)] = "'"))
    \/ \E k \in DOMAIN wb : Lower(wb[k].name) = Lower(name)

S_AllTableTitles == <<"A","l","l"," ","T","a","b","l","e"," ","T","i","t","l","e","s">>

S_AllTableTitlesHeading == <<"A","l","l"," ","T","a","b","l","e"," ","T","i","t","l","e","s"," ","(","i","n"," ","P","D","F"," ","o","r","d","e","r",")">>

S_perceptions_and_expectations == <<"p","e","r","c","e","p","t","i","o","n","s"," ","a","n","d"," ","e","x","p","e","c","t","a","t","i","o","n","s">>

S_CP_RemainedSame == <<"C","u","r","r","e","n","t"," ","P","e","r","c","e","p","t","i","o","n","-","R","e","m","a","i","n","e","d"," ","S","a","m","e">>

S_CP_Decreased == <<"C","u","r","r","e","n","t"," ","P","e","r","c","e","p","t","i","o","n","-","D","e","c","r","e","a","s","e","d">>

S_OYA_WillRemainSame == <<"O","n","e"," ","y","e","a","r"," ","a","h","e","a","d"," ","E","x","p","e","c","t","a","t","i","o","n","-","W","i","l","l"," ","R","e","m","a","i","n"," ","S","a","m","e">>

S_OYA_WillDecrease == <<"O","n","e"," ","y","e","a","r"," ","a","h","e","a","d"," ","E","x","p","e","c","t","a","t","i","o","n","-","W","i","l","l"," ","D","e","c","r","e","a","s","e">>

S_OYA_NetResponse == <<"O","n","e"," ","y","e","a","r"," ","a","h","e","a","d"," ","E","x","p","e","c","t","a","t","i","o","n","-","N","e","t"," ","R","e","s","p","o","n","s","e">>

\* line 215
NineColumnHeader ==
    <<S_SurveyRound, S_CP_Increased, S_CP_RemainedSame, S_CP_Decreased, S_CP_NetResponse,
      S_OYA_WillIncrease, S_OYA_WillRemainSame, S_OYA_WillDecrease, S_OYA_NetResponse>>

\* lines 207-208
ColsToKeep(header, body) ==
    LET kept == SelectSeq([i \in DOMAIN header |-> i],
                    LAMBDA i : \E r \in DOMAIN body :
                                   i <= Len(body[r]) /\ Strip(body[r][i]) # <<>>)
    IN  IF (kept = <<>> \/ kept[1] # 1) /\ header # <<>> /\ header[1] # <<>>
        THEN <<1>> \o kept ELSE kept

\* lines 210-215: the header and the body that are written
FinalTable(title, header, body) ==
    LET cols_to_keep  == ColsToKeep(header, body)
        pruned_header == [k \in DOMAIN cols_to_keep |-> header[cols_to_keep[k]]]
        pruned_body   == [r \in DOMAIN body |->
                             [k \in DOMAIN cols_to_keep |->
                                 IF cols_to_keep[k] <= Len(body[r])
                                 THEN body[r][cols_to_keep[k]] ELSE <<>>]]
    IN  [header |-> IF Contains(Lower(title), S_perceptions_and_expectations)
                       /\ Len(pruned_header) = 9
                    THEN NineColumnHeader ELSE pruned_header,
         body   |-> pruned_body]

\* worksheet.write of a label: an empty string leaves a blank cell
WrittenLabel(text) == IF text = <<>> THEN NoneCell ELSE text

\* lines 220-223: write_number(float(cell)) when float() takes the text,
\* write_string(cell) otherwise
WrittenCell(cell) == IF ParseDecimal(cell) # NaN THEN ParseDecimal(cell) ELSE cell

\* merge_range(0, 0, 0, 10, ...): the last column of the title's range
MergeLastCol == 10

PadRow(row, width) == [c \in 1..width |-> IF c <= Len(row) THEN row[c] ELSE NoneCell]

\* the sheet of one (title, panels) group as it reads back: the title in row
\* 0 over columns 0..10, row 1 empty, the header in row 2, the body below
SheetData(title, pans) ==
    LET tabs  == ProcessTablePanels(pans)
        final == FinalTable(title, tabs[1].header, tabs[1].body)
        width == Max({MergeLastCol + 1, IF tabs = <<>> THEN 0 ELSE Len(final.header)})
        rows  == IF tabs = <<>> \/ final.header = <<>> THEN << <<title>> >>
                 ELSE << <<title>>, <<>>, [c \in DOMAIN final.header |-> WrittenLabel(final.header[c])] >>
                      \o [r \in DOMAIN final.body |->
                             [c \in DOMAIN final.body[r] |-> WrittenCell(final.body[r][c])]]
    IN  [r \in DOMAIN rows |-> PadRow(rows[r], width)]

\* lines 229-231: the sheet of the titles
TitlesSheetData(tables) ==
    << <<S_AllTableTitlesHeading>> >> \o [k \in DOMAIN tables |-> <<tables[k].title>>]

PipeIdle ==
    /\ sheet_names = <<>>
    /\ workbook = <<>>
    /\ table_i = 0
    /\ sheet_i = 0
    /\ all_processed_sheets = <<>>
    /\ consolidated_df = <<>>

\* parse_pdf_tables_to_excel lines 259-262: no tables, no workbook is written
NoTables ==
    /\ pc = "extracted"
    /\ all_tables = <<>>
    /\ pc' = "written"
    /\ UNCHANGED pipeVars
    /\ UNCHANGED notPipe

\* lines 186-195: the workbook opened
WriteStart ==
    /\ pc = "extracted"
    /\ all_tables # <<>>
    /\ sheet_names' = <<>>
    /\ workbook' = <<>>
    /\ table_i' = 1
    /\ pc' = "write"
    /\ UNCHANGED <<sheet_i, all_processed_sheets, consolidated_df>>
    /\ UNCHANGED notPipe

\* lines 197-227: the sheet of one (title, panels) group
WriteSheet ==
    /\ pc = "write"
    /\ table_i <= Len(all_tables)
    /\ LET title == all_tables[table_i].title
           sheet_name == clean_sheet_name(title, sheet_names)
       IN  /\ ~AddWorksheetRaises(sheet_name, workbook)
           /\ sheet_names' = Append(sheet_names, sheet_name)
           /\ workbook' = Append(workbook,
                  [name |-> sheet_name,
                   data |-> SheetData(title, all_tables[table_i].panels)])
    /\ table_i' = table_i + 1
    /\ UNCHANGED <<sheet_i, all_processed_sheets, consolidated_df, pc>>
    /\ UNCHANGED notPipe

\* lines 198-200 when add_worksheet raises: the with statement closes the
\* workbook with the sheets it has, the driver reports the document
WriteSheetRaises ==
    /\ pc = "write"
    /\ table_i <= Len(all_tables)
    /\ LET sheet_name == clean_sheet_name(all_tables[table_i].title, sheet_names)
       IN  /\ AddWorksheetRaises(sheet_name, workbook)
           /\ sheet_names' = Append(sheet_names, sheet_name)
    /\ pc' = "written"
    /\ UNCHANGED <<workbook, table_i, sheet_i, all_processed_sheets, consolidated_df>>
    /\ UNCHANGED notPipe

\* lines 229-232: the sheet of the titles, the workbook closed
WriteTitles ==
    /\ pc = "write"
    /\ table_i > Len(all_tables)
    /\ LET sheet_name == clean_sheet_name(S_AllTableTitles, sheet_names)
       IN  /\ ~AddWorksheetRaises(sheet_name, workbook)
           /\ workbook' = Append(workbook,
                  [name |-> sheet_name, data |-> TitlesSheetData(all_tables)])
    /\ pc' = "written"
    /\ UNCHANGED <<sheet_names, table_i, sheet_i, all_processed_sheets, consolidated_df>>
    /\ UNCHANGED notPipe

(***************************************************************************)
(* consolidate_data.main                                                   *)
(***************************************************************************)
S_summary == <<"s","u","m","m","a","r","y">>

S_all_table_titles == <<"a","l","l"," ","t","a","b","l","e"," ","t","i","t","l","e","s">>

\* SkipSheet that knows the sheet of the titles only
SkipSheet_OnlyTitles(sheet_name) == Lower(sheet_name) = S_all_table_titles

\* line 172
SkipSheet(sheet_name) ==
    StartsWith(Lower(sheet_name), S_summary) \/ Lower(sheet_name) = S_all_table_titles

\* isinstance(x, str)
IsStr(cell) == cell # NoneCell /\ cell # NaN /\ ~IsNumCell(cell)

\* TitleFromCell that always takes the fallback
TitleFromCell_SheetName(sheet_name, data) == sheet_name

\* lines 184-186
TitleFromCell(sheet_name, data) ==
    IF data # <<>> /\ data[1] # <<>> /\ IsStr(data[1][1]) THEN data[1][1] ELSE sheet_name

\* lines 189-193: the first row whose first cell holds 'Survey Round', counted
\* from 1; 0 for None
HeaderRowIndex(data) ==
    LET hits == {i \in DOMAIN data :
                    data[i] # <<>> /\ Contains(PyStr(data[i][1]), S_SurveyRound)}
    IN  IF hits = {} THEN 0 ELSE CHOOSE i \in hits : \A j \in hits : i <= j

\* lines 200-207: the frame under the header row, without the rows and then
\* the columns that are all null; a frame with no row loses every column
FrameOf(data, h) ==
    LET rows0 == SubSeq(data, h + 1, Len(data))
        rows1 == SelectSeq(rows0, LAMBDA r : \E c \in DOMAIN r : ~IsNull(r[c]))
        cols  == SelectSeq([c \in DOMAIN data[h] |-> c],
                     LAMBDA c : \E r \in DOMAIN rows1 : ~IsNull(rows1[r][c]))
    IN  [columns |-> [k \in DOMAIN cols |-> data[h][cols[k]]],
         rows    |-> [r \in DOMAIN rows1 |-> [k \in DOMAIN cols |-> rows1[r][cols[k]]]]]

\* lines 137-143: the five columns of an observation
FinalColumns(o) ==
    [survey_round        |-> o.survey_round,
     perception_category |-> o.perception_category,
     perception_type     |-> o.perception_type,
     response_category   |-> o.response_category,
     response_percentage |-> o.response_percentage]

\* line 223
RECURSIVE Concat(_)
Concat(frames) ==
    IF frames = <<>> THEN <<>>
    ELSE [n \in DOMAIN Head(frames) |-> FinalColumns(Head(frames)[n])] \o Concat(Tail(frames))

\* DropDuplicates that looks at the row before only
DropDuplicates_Adjacent(rows) ==
    LET firsts == SelectSeq([n \in DOMAIN rows |-> n],
                      LAMBDA n : n = 1 \/ rows[n - 1] # rows[n])
    IN  [k \in DOMAIN firsts |-> rows[firsts[k]]]

\* line 226: a row equal to an earlier row is dropped
DropDuplicates(rows) ==
    LET firsts == SelectSeq([n \in DOMAIN rows |-> n],
                      LAMBDA n : \A m \in 1..(n - 1) : rows[m] # rows[n])
    IN  [k \in DOMAIN firsts |-> rows[firsts[k]]]

\* lines 156-159: no workbook was written
MainNoFiles ==
    /\ pc = "written"
    /\ workbook = <<>>
    /\ consolidated_df' = <<>>
    /\ pc' = "done"
    /\ UNCHANGED <<sheet_names, workbook, table_i, sheet_i, all_processed_sheets>>
    /\ UNCHANGED notPipe

\* lines 161-170: the workbook loaded
MainStart ==
    /\ pc = "written"
    /\ workbook # <<>>
    /\ all_processed_sheets' = <<>>
    /\ sheet_i' = 1
    /\ pc' = "read"
    /\ UNCHANGED <<sheet_names, workbook, table_i, consolidated_df>>
    /\ UNCHANGED notPipe

\* lines 172-174
ReadSkipSheet ==
    /\ pc = "read"
    /\ sheet_i <= Len(workbook)
    /\ SkipSheet(workbook[sheet_i].name)
    /\ sheet_i' = sheet_i + 1
    /\ UNCHANGED <<sheet_names, workbook, table_i, all_processed_sheets, consolidated_df, pc>>
    /\ UNCHANGED notPipe

\* lines 176-197: a sheet without the 'Survey Round' header
ReadNoHeader ==
    /\ pc = "read"
    /\ sheet_i <= Len(workbook)
    /\ ~SkipSheet(workbook[sheet_i].name)
    /\ HeaderRowIndex(workbook[sheet_i].data) = 0
    /\ sheet_i' = sheet_i + 1
    /\ UNCHANGED <<sheet_names, workbook, table_i, all_processed_sheets, consolidated_df, pc>>
    /\ UNCHANGED notPipe

\* lines 176-212: a sheet with the header, through process_sheet
ReadSheet ==
    /\ pc = "read"
    /\ sheet_i <= Len(workbook)
    /\ ~SkipSheet(workbook[sheet_i].name)
    /\ LET sheet == workbook[sheet_i]
           h == HeaderRowIndex(sheet.data)
           processed_df == ProcessSheet(FrameOf(sheet.data, h),
                                        TitleFromCell(sheet.name, sheet.data))
       IN  /\ h # 0
           /\ all_processed_sheets' =
                  IF processed_df # <<>> THEN Append(all_processed_sheets, processed_df)
                  ELSE all_processed_sheets
    /\ sheet_i' = sheet_i + 1
    /\ UNCHANGED <<sheet_names, workbook, table_i, consolidated_df, pc>>
    /\ UNCHANGED notPipe

\* lines 218-226
Consolidate ==
    /\ pc = "read"
    /\ sheet_i > Len(workbook)
    /\ consolidated_df' = IF all_processed_sheets = <<>> THEN <<>>
                          ELSE DropDuplicates(Concat(all_processed_sheets))
    /\ pc' = "done"
    /\ UNCHANGED <<sheet_names, workbook, table_i, sheet_i, all_processed_sheets>>
    /\ UNCHANGED notPipe

PipeNext ==
    \/ LocNext
    \/ NoTables \/ WriteStart \/ WriteSheet \/ WriteSheetRaises \/ WriteTitles
    \/ MainNoFiles \/ MainStart \/ ReadSkipSheet \/ ReadNoHeader \/ ReadSheet
    \/ Consolidate

(***************************************************************************)
(* write_to_excel and the loop body of consolidate_data.main as functions  *)
(***************************************************************************)
\* the sheets of lines 197-227 from table k on; the first add_worksheet that
\* raises ends the function, the workbook keeps the sheets it has
RECURSIVE WriteSheetsFrom(_, _, _, _)
WriteSheetsFrom(tables, k, names, wb) ==
    IF k > Len(tables) THEN [sheet_names |-> names, sheets |-> wb, raised |-> FALSE]
    ELSE CHOOSE result \in
             {IF AddWorksheetRaises(sheet_name, wb)
              THEN [sheet_names |-> names \o <<sheet_name>>, sheets |-> wb, raised |-> TRUE]
              ELSE WriteSheetsFrom(tables, k + 1, names \o <<sheet_name>>,
                       wb \o <<[name |-> sheet_name, data |-> data]>>) :
                  sheet_name \in {clean_sheet_name(tables[k].title, names)},
                  data \in {SheetData(tables[k].title, tables[k].panels)}} : TRUE

\* write_to_excel: the workbook that is on disk afterwards, and whether the
\* call raised
WriteToExcel(tables) ==
    CHOOSE result \in
        {LET titles_name == clean_sheet_name(S_AllTableTitles, w.sheet_names)
         IN  IF w.raised \/ AddWorksheetRaises(titles_name, w.sheets)
             THEN [sheets |-> w.sheets, raised |-> TRUE]
             ELSE [sheets |-> w.sheets \o <<[name |-> titles_name,
                                             data |-> TitlesSheetData(tables)]>>,
                   raised |-> FALSE] :
             w \in {WriteSheetsFrom(tables, 1, <<>>, <<>>)}} : TRUE

\* lines 170-212 on one sheet: the frames it adds to all_processed_sheets
ReadOneSheet(sheet) ==
    LET h == HeaderRowIndex(sheet.data)
        processed_df == ProcessSheet(FrameOf(sheet.data, h),
                                     TitleFromCell(sheet.name, sheet.data))
    IN  IF SkipSheet(sheet.name) \/ h = 0 THEN <<>>
        ELSE IF processed_df = <<>> THEN <<>>
        ELSE <<processed_df>>

\* lines 170-212 on all sheets of a workbook
RECURSIVE ReadWorkbook(_)
ReadWorkbook(wb) ==
    IF wb = <<>> THEN <<>> ELSE ReadOneSheet(Head(wb)) \o ReadWorkbook(Tail(wb))

\* lines 218-226 on the frames collected
FinalDataset(frames) == IF frames = <<>> THEN <<>> ELSE DropDuplicates(Concat(frames))

\* the steps of the pipeline agree with the functions
PipelineAgrees ==
    /\ pc = "written" => workbook = (IF all_tables = <<>> THEN <<>>
                                     ELSE WriteToExcel(all_tables).sheets)
    /\ pc = "done" =>
          consolidated_df = FinalDataset(ReadWorkbook(
              IF ExtractPdfData(doc) = <<>> THEN <<>>
              ELSE WriteToExcel(ExtractPdfData(doc)).sheets))

(***************************************************************************)
(* The documents that go through both scripts                              *)
(***************************************************************************)
S_TITLE1 == <<"T","A","B","L","E"," ","1",":"," ","P","e","r","c","e","p","t","i","o","n","s"," ","o","n"," ","I","n","f","l","a","t","i","o","n">>

\* the title lines of these documents
PipeTitles == <<S_Title1, S_TITLE1>>

\* header rows over all three columns, two data rows
ClaimedRegion == <<RowHdr1, RowHdr2, RowMay, RowJun>>

\* the same with nothing over the period column
VariantRegion == << <<<<>>, S_CurrentPerception, <<>>>>, <<<<>>, S_mIncreased, S_mSame>>,
                    RowMay, RowJun >>

\* the table regions of these documents
PipeRegions == <<ClaimedRegion, VariantRegion>>

\* what a document is made of, in reading order: title lines, table regions
\* and page breaks
PipeEntryPool == [kind : {"title", "table"}, which : {1, 2}]
                 \cup {[kind |-> "break", which |-> 0]}

\* the page with entries es, each at the vertical position of its place
PipePageOf(es) ==
    LET ts == SelectSeq([i \in DOMAIN es |-> i], LAMBDA i : es[i].kind = "title")
        gs == SelectSeq([i \in DOMAIN es |-> i], LAMBDA i : es[i].kind = "table")
    IN  [lines  |-> [k \in DOMAIN ts |-> [top |-> ts[k], text |-> PipeTitles[es[ts[k]].which]]],
         tables |-> [k \in DOMAIN gs |-> [top |-> gs[k], grid |-> PipeRegions[es[gs[k]].which]]]]

PipeDocOf(es) ==
    LET shapes == SplitPages(es, <<>>)
    IN  [p \in DOMAIN shapes |-> PipePageOf(shapes[p])]

PipelineDocs == {PipeDocOf(es) : es \in SeqsUpTo(PipeEntryPool, MaxDocEntries)}

(***************************************************************************)
(* Claims about the whole pipeline (SpecPipeline)                          *)
(***************************************************************************)
C1_Title == [kind |-> "title", which |-> 1]

C1_Break == [kind |-> "break", which |-> 0]

C1_Region(which) == [kind |-> "table", which |-> which]

\* the two-page documents with the one title line and then the one region
C1_Docs(which) ==
    {PipeDocOf(es) : es \in {<<C1_Title, C1_Region(which), C1_Break>>,
                             <<C1_Title, C1_Break, C1_Region(which)>>,
                             <<C1_Break, C1_Title, C1_Region(which)>>}}

S_Inflation == <<"I","n","f","l","a","t","i","o","n">>

C1_Observation(period, ptype, bucket, value) ==
    [survey_round        |-> period,
     perception_category |-> S_Inflation,
     perception_type     |-> ptype,
     response_category   |-> bucket,
     response_percentage |-> value]

S_Increased == <<"I","n","c","r","e","a","s","e","d">>

S_2025_05_01 == <<"2","0","2","5","-","0","5","-","0","1">>

S_2025_06_01 == <<"2","0","2","5","-","0","6","-","0","1">>

\* the observations of the two value columns of VariantRegion
C1_FourObservations ==
    <<C1_Observation(S_2025_05_01, S_CurrentPerception, S_Increased, <<"num","4","0">>),
      C1_Observation(S_2025_06_01, S_CurrentPerception, S_Increased, <<"num","4","1">>),
      C1_Observation(S_2025_05_01, S_NetResponse, S_NetResponse, <<"num","3","5">>),
      C1_Observation(S_2025_06_01, S_NetResponse, S_NetResponse, <<"num","3","6">>)>>

\* C1, amended: the two-page document with the title line "Table 1:
\* Perceptions on Inflation" and then the region with header rows
\* ["Current Perception", "", ""] and ["-Increased", "-Same", "-Decreased"]
\* yields no observation, since its merged header starts with "Current
\* Perception -Increased" and its sheet has no 'Survey Round' row; the same
\* document with nothing over the period column yields exactly 4
\* observations, each with the parsed period, the category "Inflation" and
\* the number of its source cell.
C1_EndToEnd ==
    pc = "done" =>
        /\ doc \in C1_Docs(1) => consolidated_df = <<>>
        /\ doc \in C1_Docs(2) =>
              /\ Len(consolidated_df) = 4
              /\ consolidated_df = C1_FourObservations

\* C1 as claimed: the document with the header rows over all three columns
\* yields exactly 4 observations of category "Inflation"
C1_AsClaimed ==
    (pc = "done" /\ doc \in C1_Docs(1)) =>
        /\ Len(consolidated_df) = 4
        /\ \A n \in DOMAIN consolidated_df :
              /\ consolidated_df[n].perception_category = S_Inflation
              /\ consolidated_df[n].survey_round \in {S_2025_05_01, S_2025_06_01}
              /\ IsNumCell(consolidated_df[n].response_percentage)

\* the document with nothing over the period column has gone through, its
\* sheet was read and gave 4 observations
C1_Witness ==
    /\ pc = "done"
    /\ doc \in C1_Docs(2)
    /\ Len(all_processed_sheets) = 1
    /\ Len(consolidated_df) = 4

\* the first n cells of a row read back
C13_Cells(row, n) == [c \in 1..n |-> row[c]]

\* C13 as claimed: the header row and every body cell of a stored table read
\* back identical to the header and body that write_to_excel stored (a
\* stored "40" reads back as "40")
C13_RoundTrip ==
    \A k \in DOMAIN workbook :
        (k <= Len(all_tables) /\ ProcessTablePanels(all_tables[k].panels) # <<>>) =>
            LET tab   == ProcessTablePanels(all_tables[k].panels)[1]
                final == FinalTable(all_tables[k].title, tab.header, tab.body)
                data  == workbook[k].data
                n     == Len(final.header)
            IN  final.header # <<>> =>
                    /\ C13_Cells(data[3], n) = final.header
                    /\ \A r \in DOMAIN final.body :
                           C13_Cells(data[3 + r], n) = final.body[r]

S_Summary == <<"S","u","m","m","a","r","y">>

\* the groups of tables that have a title line
C18_Titled(tables) == SelectSeq(tables, LAMBDA g : g.title # S_DefaultTitle)

\* the dataset of the tables given, none when there is no table to write
C18_DatasetOf(tables) ==
    IF tables = <<>> THEN <<>> ELSE FinalDataset(ReadWorkbook(WriteToExcel(tables).sheets))

\* C18: the sheet of a group emitted under the default title "Summary based
\* on Net Responses" has a name that starts with "Summary", main skips it,
\* and the final dataset is the one the document gives without that group.
C18_DefaultTitleSkipped ==
    /\ \A k \in DOMAIN workbook :
           (k <= Len(all_tables) /\ all_tables[k].title = S_DefaultTitle) =>
               /\ StartsWith(workbook[k].name, S_Summary)
               /\ SkipSheet(workbook[k].name)
    /\ pc = "done" => consolidated_df = C18_DatasetOf(C18_Titled(all_tables))

\* a document through both scripts whose first region has no title line
\* before it and would give observations under a title, as its later region
\* does
C18_Witness ==
    /\ pc = "done"
    /\ Len(all_tables) >= 2
    /\ all_tables[1].title = S_DefaultTitle
    /\ all_tables[1].panels = <<VariantRegion>>
    /\ Len(workbook) = Len(all_tables) + 1
    /\ consolidated_df # <<>>

(***************************************************************************)
(* The tables write_to_excel names (SpecNamer)                             *)
(***************************************************************************)
S_Table1 == <<"T","a","b","l","e"," ","1">>

S_Table1_1 == <<"T","a","b","l","e"," ","1","_","1">>

S_Table1Colon == <<"T","a","b","l","e"," ","1",":">>

S_TABLE1 == <<"T","A","B","L","E"," ","1">>

S_TitleEconomic == <<"T","a","b","l","e"," ","1",":"," ","P","e","r","c","e","p","t","i","o","n","s"," ","o","n"," ","E","c","o","n","o","m","i","c"," ","S","i","t","u","a","t","i","o","n">>

\* the titles of the tables: a short one, one that reads like a suffixed
\* name, one that cleans to the short one, one that differs from it in
\* letter case only, one of more than 31 characters
NamerTitles == {S_Table1, S_Table1_1, S_Table1Colon, S_TABLE1, S_TitleEconomic}

\* the most tables of a document with mixed titles
MaxTitles == 3

\* the tables of a document that repeats one long title
MaxRepeats == 101

\* the panels of each of these tables: one region of one row
NamerPanels == << << <<S_May25, <<"4","0">>>> >> >>

NamerTables ==
    {[k \in DOMAIN ts |-> [title |-> ts[k], panels |-> NamerPanels]] :
        ts \in SeqsUpTo(NamerTitles, MaxTitles) \ {<<>>}}
    \cup {[k \in 1..MaxRepeats |-> [title |-> S_TitleEconomic, panels |-> NamerPanels]]}

\* write_to_excel is called with the tables of a document
NamerStart ==
    /\ all_tables \in NamerTables
    /\ doc = <<>>
    /\ page_i = 0
    /\ items = <<>>
    /\ item_i = 0
    /\ current_title = <<>>
    /\ current_panels = <<>>
    /\ pc = "extracted"

NamerNext == WriteStart \/ WriteSheet \/ WriteSheetRaises \/ WriteTitles

(***************************************************************************)
(* Claims about clean_sheet_name (SpecNamer)                               *)
(***************************************************************************)
\* C14: clean_sheet_name returns a name that is not among the names assigned
\* so far, for the next title whatever it is and for "All Table Titles"; so
\* the names assigned and the names of the sheets of the workbook, the sheet
\* of the titles included, are pairwise distinct.
C14_NamesDistinct ==
    /\ \A t \in NamerTitles \cup {S_AllTableTitles} :
           clean_sheet_name(t, sheet_names) \notin Range(sheet_names)
    /\ \A i, j \in DOMAIN sheet_names : i < j => sheet_names[i] # sheet_names[j]
    /\ \A i, j \in DOMAIN workbook : i < j => workbook[i].name # workbook[j].name

\* a workbook closed with the sheet of the titles, two of its tables under
\* the same title
C14_Witness ==
    /\ pc = "written"
    /\ Len(workbook) = Len(all_tables) + 1
    /\ workbook[Len(workbook)].name = S_AllTableTitles
    /\ \E i, j \in DOMAIN all_tables : i < j /\ all_tables[i].title = all_tables[j].title

\* C15 as claimed: every name assigned has at most 31 characters and none of
\* the characters [ ] : * ? / \, after any number of collisions
C15_NameLegal ==
    \A n \in DOMAIN sheet_names :
        /\ Len(sheet_names[n]) <= 31
        /\ \A c \in DOMAIN sheet_names[n] :
               sheet_names[n][c] \notin {"[", "]", ":", "*", "?", "/", "\\"}

\* the title of table n has occurred this many times up to table n
C16_Occurrence(n) ==
    Cardinality({m \in 1..n : all_tables[m].title = all_tables[n].title})

\* the title without the illegal characters, trimmed, its first 31 characters
C16_Cleaned(title) ==
    LET kept == Strip(SelectSeq(title, LAMBDA c : c \notin {"[", "]", ":", "*", "?", "/", "\\"}))
    IN  SubSeq(kept, 1, IF Len(kept) < 31 THEN Len(kept) ELSE 31)

\* candidate 0 is the cleaned name, candidate i its first 28 characters
\* followed by _i
C16_Candidate(title, i) ==
    LET clean == C16_Cleaned(title)
    IN  IF i = 0 THEN clean
        ELSE SubSeq(clean, 1, IF Len(clean) < 28 THEN Len(clean) ELSE 28)
             \o <<"_">> \o IntToStr(i)

\* the name of the k-th occurrence as claimed
C16_Expected(n) == C16_Candidate(all_tables[n].title, C16_Occurrence(n) - 1)

\* the names given before table n to tables with another title
C16_OtherNames(n) ==
    {sheet_names[m] : m \in {m \in 1..(n - 1) : all_tables[m].title # all_tables[n].title}}

BatchIdle ==
    /\ pdf_files = <<>>
    /\ pdf_i = 0
    /\ excel_files = <<>>
    /\ file_i = 0

\* AfterFailure that leaves the loop
AfterFailure_Stops(i, n) == n + 1

\* the except clauses (extract_pdf_data.py 265-268, consolidate_data.py
\* 214-216) end the iteration only: the loop goes on with the next document
AfterFailure(i, n) == i + 1

\* the directory listed, the loop over its PDFs begins
BatchStart(batches) ==
    /\ pdf_files \in batches
    /\ pdf_i = 1
    /\ excel_files = <<>>
    /\ file_i = 0
    /\ pc = "convert"

\* lines 258, 265-268: extract_pdf_data raises on a PDF that does not open
ConvertRaises ==
    /\ pc = "convert"
    /\ pdf_i <= Len(pdf_files)
    /\ ~pdf_files[pdf_i].opens
    /\ pdf_i' = AfterFailure(pdf_i, Len(pdf_files))
    /\ UNCHANGED <<pdf_files, excel_files, file_i, pipeVars, pc>>
    /\ UNCHANGED notBatch

\* lines 258-262: no tables, nothing is written
ConvertNoTables ==
    /\ pc = "convert"
    /\ pdf_i <= Len(pdf_files)
    /\ pdf_files[pdf_i].opens
    /\ ExtractPdfData(pdf_files[pdf_i].doc) = <<>>
    /\ pdf_i' = pdf_i + 1
    /\ UNCHANGED <<pdf_files, excel_files, file_i, pipeVars, pc>>
    /\ UNCHANGED notBatch

\* lines 258-264: the workbook of the PDF's tables; when write_to_excel
\* raises, the workbook is on disk with the sheets added before
ConvertWrites ==
    /\ pc = "convert"
    /\ pdf_i <= Len(pdf_files)
    /\ pdf_files[pdf_i].opens
    /\ \E tables \in {ExtractPdfData(pdf_files[pdf_i].doc)} :
           /\ tables # <<>>
           /\ \E written \in {WriteToExcel(tables)} :
                  /\ excel_files' = Append(excel_files,
                         [loads |-> pdf_files[pdf_i].loads, sheets |-> written.sheets])
                  /\ pdf_i' = IF written.raised
                              THEN AfterFailure(pdf_i, Len(pdf_files))
                              ELSE pdf_i + 1
    /\ UNCHANGED <<pdf_files, file_i, pipeVars, pc>>
    /\ UNCHANGED notBatch

\* consolidate_data.main lines 156-159: no workbook to read
BatchNoFiles ==
    /\ pc = "convert"
    /\ pdf_i > Len(pdf_files)
    /\ excel_files = <<>>
    /\ consolidated_df' = <<>>
    /\ pc' = "done"
    /\ UNCHANGED <<sheet_names, workbook, table_i, sheet_i, all_processed_sheets>>
    /\ UNCHANGED batchVars
    /\ UNCHANGED notBatch

\* lines 161-165: the loop over the workbooks begins
BatchMainStart ==
    /\ pc = "convert"
    /\ pdf_i > Len(pdf_files)
    /\ excel_files # <<>>
    /\ all_processed_sheets' = <<>>
    /\ file_i' = 1
    /\ pc' = "load"
    /\ UNCHANGED <<sheet_names, workbook, table_i, sheet_i, consolidated_df>>
    /\ UNCHANGED <<pdf_files, pdf_i, excel_files>>
    /\ UNCHANGED notBatch

\* lines 169, 214-216: load_workbook raises
LoadRaises ==
    /\ pc = "load"
    /\ file_i <= Len(excel_files)
    /\ ~excel_files[file_i].loads
    /\ file_i' = AfterFailure(file_i, Len(excel_files))
    /\ UNCHANGED <<pdf_files, pdf_i, excel_files, pipeVars, pc>>
    /\ UNCHANGED notBatch

\* lines 169-212: the sheets of one workbook
LoadReads ==
    /\ pc = "load"
    /\ file_i <= Len(excel_files)
    /\ excel_files[file_i].loads
    /\ all_processed_sheets' =
           all_processed_sheets \o ReadWorkbook(excel_files[file_i].sheets)
    /\ file_i' = file_i + 1
    /\ UNCHANGED <<sheet_names, workbook, table_i, sheet_i, consolidated_df>>
    /\ UNCHANGED <<pdf_files, pdf_i, excel_files, pc>>
    /\ UNCHANGED notBatch

\* lines 218-226
BatchConsolidate ==
    /\ pc = "load"
    /\ file_i > Len(excel_files)
    /\ consolidated_df' = FinalDataset(all_processed_sheets)
    /\ pc' = "done"
    /\ UNCHANGED <<sheet_names, workbook, table_i, sheet_i, all_processed_sheets>>
    /\ UNCHANGED batchVars
    /\ UNCHANGED notBatch

BatchNext ==
    \/ ConvertRaises \/ ConvertNoTables \/ ConvertWrites
    \/ BatchNoFiles \/ BatchMainStart
    \/ LoadRaises \/ LoadReads \/ BatchConsolidate

\* a region like VariantRegion with the rows of June and July
RowJul == <<<<"J","u","l","-","2","5">>, <<"4","2">>, <<"3","7">>>>

LaterRegion == << <<<<>>, S_CurrentPerception, <<>>>>, <<<<>>, S_mIncreased, S_mSame>>,
                  RowJun, RowJul >>

BatchPage(titles, regions) ==
    [lines  |-> [k \in DOMAIN titles |-> [top |-> k, text |-> titles[k]]],
     tables |-> [k \in DOMAIN regions |-> [top |-> Len(titles) + k, grid |-> regions[k]]]]

\* the PDFs of a batch: tables of May and June; of June and July; the first
\* region twice under one title; a second title that differs from the first
\* in letter case only, so that write_to_excel raises; a title line without
\* a table; a workbook that cannot be loaded; a PDF that does not open
BatchPdfs ==
    {[opens |-> TRUE,  loads |-> TRUE,  doc |-> <<BatchPage(<<S_Title1>>, <<VariantRegion>>)>>],
     [opens |-> TRUE,  loads |-> TRUE,  doc |-> <<BatchPage(<<S_Title1>>, <<LaterRegion>>)>>],
     [opens |-> TRUE,  loads |-> TRUE,
      doc |-> <<BatchPage(<<S_Title1>>, <<VariantRegion, VariantRegion>>)>>],
     [opens |-> TRUE,  loads |-> TRUE,
      doc |-> <<BatchPage(<<S_Title1>>, <<LaterRegion>>),
                BatchPage(<<S_TITLE1>>, <<VariantRegion>>)>>],
     [opens |-> TRUE,  loads |-> TRUE,  doc |-> <<BatchPage(<<S_Title1>>, <<>>)>>],
     [opens |-> TRUE,  loads |-> FALSE, doc |-> <<BatchPage(<<S_Title1>>, <<VariantRegion>>)>>],
     [opens |-> FALSE, loads |-> FALSE, doc |-> <<>>]}

\* the most PDFs of a batch
MaxBatch == 3

Batches == SeqsUpTo(BatchPdfs, MaxBatch)

(***************************************************************************)
(* Claims about the driver loops and the final dataset (SpecBatch)         *)
(***************************************************************************)
\* the observations in arrival order, before duplicates are dropped
C12_Rows == Concat(all_processed_sheets)

\* where x stands first in rows
C12_First(rows, x) == Min({n \in DOMAIN rows : rows[n] = x})

\* C12: the final dataset holds no two identical observations, holds every
\* observation that arrived and no other, each at the place of its first
\* occurrence in arrival order, across tables and documents; dropping
\* duplicates once more changes nothing.
C12_Dedup ==
    pc = "done" =>
        LET rows == C12_Rows
            out  == consolidated_df
        IN  /\ \A i, j \in DOMAIN out : i < j => out[i] # out[j]
            /\ \A n \in DOMAIN rows : \E i \in DOMAIN out : out[i] = rows[n]
            /\ \A i \in DOMAIN out : \E n \in DOMAIN rows : rows[n] = out[i]
            /\ \A i, j \in DOMAIN out :
                   i < j => C12_First(rows, out[i]) < C12_First(rows, out[j])
            /\ DropDuplicates(out) = out

\* a final dataset made from tables of several workbooks: two tables share
\* an observation, one table holds an observation twice
C12_Witness ==
    /\ pc = "done"
    /\ Len(excel_files) >= 2
    /\ \E f, g \in DOMAIN all_processed_sheets :
           /\ f < g
           /\ \E a \in DOMAIN all_processed_sheets[f] :
              \E b \in DOMAIN all_processed_sheets[g] :
                  FinalColumns(all_processed_sheets[f][a])
                      = FinalColumns(all_processed_sheets[g][b])
    /\ \E f \in DOMAIN all_processed_sheets :
       \E a, b \in DOMAIN all_processed_sheets[f] :
           /\ a < b
           /\ FinalColumns(all_processed_sheets[f][a])
                  = FinalColumns(all_processed_sheets[f][b])
    /\ consolidated_df # <<>>
    /\ Len(consolidated_df) < Len(C12_Rows)

\* a PDF that opens and has tables
C17_Converts(pdf) == pdf.opens /\ ExtractPdfData(pdf.doc) # <<>>

\* the workbooks of the PDFs that open and have tables, in their order
C17_ExpectedFiles(pdfs) ==
    LET good == SelectSeq(pdfs, C17_Converts)
    IN  [k \in DOMAIN good |->
            [loads  |-> good[k].loads,
             sheets |-> WriteToExcel(ExtractPdfData(good[k].doc)).sheets]]

\* the tables of the workbooks that load, in their order
RECURSIVE C17_ExpectedFrames(_)
C17_ExpectedFrames(files) ==
    IF files = <<>> THEN <<>>
    ELSE (IF Head(files).loads THEN ReadWorkbook(Head(files).sheets) ELSE <<>>)
         \o C17_ExpectedFrames(Tail(files))

C17_IsPrefix(s, t) == Len(s) <= Len(t) /\ SubSeq(t, 1, Len(s)) = s

\* C17: a document that raises does not stop either loop: every PDF that
\* opens and has tables has its workbook, whatever raised before it; the
\* final dataset is made from the tables of every workbook that loads; and
\* the tables collected are never taken back while the workbooks are read.
C17_BatchGoesOn ==
    /\ [](pc \in {"load", "done"} => excel_files = C17_ExpectedFiles(pdf_files))
    /\ [](pc = "done" =>
             consolidated_df = FinalDataset(C17_ExpectedFrames(excel_files)))
    /\ [][pc = "load" => C17_IsPrefix(all_processed_sheets, all_processed_sheets')]_vars

\* a batch of three: the second PDF does not open or its workbook does not
\* load, the first and the third went through, and the final dataset holds
\* observations of both
C17_Witness ==
    /\ pc = "done"
    /\ Len(pdf_files) = 3
    /\ ~pdf_files[2].loads
    /\ pdf_files[1].loads /\ pdf_files[3].loads
    /\ pdf_files[1] # pdf_files[3]
    /\ Len(all_processed_sheets) = 2
    /\ \E i \in DOMAIN consolidated_df :
           consolidated_df[i] \notin {FinalColumns(all_processed_sheets[1][a]) :
                                          a \in DOMAIN all_processed_sheets[1]}
    /\ \E i \in DOMAIN consolidated_df :
           consolidated_df[i] \notin {FinalColumns(all_processed_sheets[2][a]) :
                                          a \in DOMAIN all_processed_sheets[2]}

(***************************************************************************)
(* Specifications                                                          *)
(***************************************************************************)
\* one call of process_table_panels on any of PanelInputs
InitPanels == PtpInit /\ PsIdle /\ LocIdle /\ PipeIdle /\ pc = "idle" /\ BatchIdle

SpecPanels == InitPanels /\ [][PtpNext]_vars

\* one call of process_sheet on any of SheetInputs
InitSheet == PsInit /\ PtpIdle /\ LocIdle /\ PipeIdle /\ pc = "idle" /\ BatchIdle

SpecSheet == InitSheet /\ [][PsNext]_vars

\* extract_pdf_data on any of LocatorDocs
InitLocator == LocStart(LocatorDocs) /\ PtpIdle /\ PsIdle /\ PipeIdle /\ BatchIdle

SpecLocator == InitLocator /\ [][LocNext]_vars

\* one document of PipelineDocs through extract_pdf_data, write_to_excel and
\* consolidate_data.main
InitPipeline == LocStart(PipelineDocs) /\ PtpIdle /\ PsIdle /\ PipeIdle /\ BatchIdle

SpecPipeline == InitPipeline /\ [][PipeNext]_vars

\* write_to_excel naming and writing the sheets of any of NamerTables
InitNamer == NamerStart /\ PtpIdle /\ PsIdle /\ PipeIdle /\ BatchIdle

SpecNamer == InitNamer /\ [][NamerNext]_vars

\* both scripts over any batch of Batches
InitBatch == BatchStart(Batches) /\ PtpIdle /\ PsIdle /\ LocIdle /\ PipeIdle

SpecBatch == InitBatch /\ [][BatchNext]_vars

====
